---------------------------- MODULE Spec2Model ----------------------------
(***************************************************************************)
(* Appointment scheduling and authorization core of onlinecarehospital.    *)
(*                                                                         *)
(* The storage layer is the PostgreSQL schema of the migration: the        *)
(* appointments table with its CHECK constraints, the partial unique index *)
(* idx_appointments_no_double_booking and the row level security policies. *)
(* Permissive policies of one command are OR-ed: an UPDATE touches a row   *)
(* when some UPDATE/ALL policy's USING accepts the stored row (a row no    *)
(* policy accepts is silently skipped: zero rows, no error) and is refused *)
(* with an error when no UPDATE/ALL policy's WITH CHECK accepts the new    *)
(* row.  A policy without WITH CHECK uses its USING expression for both.   *)
(* The clients are the patient and the doctor dashboard.                   *)
(***************************************************************************)
EXTENDS Integers, Sequences, FiniteSets, TLC

\* ------------------------------------------------------------------ bounds
MaxAppts == 2        \* rows the appointments table may hold
MaxTime  == 2        \* appointment_time values 1..MaxTime
MaxAvail == 2        \* rows the doctor_availabilities table may hold
MaxEvents == 2       \* change events waiting for delivery to a channel
MaxFetches == 2
MaxChannels == 2      \* responses of fetchAppointments in flight

\* ----------------------------------------------------------------- domains
NULL == "NULL"

Users     == {"p1", "p2", "d1", "d2", "a1"}   \* auth.users / profiles.id
Callers   == Users \cup {NULL}                \* auth.uid(); NULL = anonymous
DoctorIds == {"D1", "D2"}                     \* doctors.id
Dates     == {1}                              \* appointment_date, a day number
Times     == 1..MaxTime
Notes     == {NULL, "note"}
ApptIds   == 1..MaxAppts

Roles     == {"patient", "doctor", "admin"}
Statuses  == {"pending", "confirmed", "rejected", "cancelled", "completed"}
ActiveStatuses   == {"pending", "confirmed"}
TerminalStatuses == {"rejected", "cancelled", "completed"}
CancelledBy == {NULL, "patient", "doctor", "admin"}

NoRow == [absent |-> TRUE]

Columns == {"patient_id", "doctor_id", "appointment_date", "appointment_time",
            "status", "doctor_note", "cancelled_by"}

VARIABLES
  authUsers,     \* auth.users: id -> [email_confirmed_at], TRUE when NOT NULL
  profiles,      \* profiles table: id -> [role, email_confirmed]
  doctors,       \* doctors table: id -> profile_id
  availabilities,  \* doctor_availabilities table: id -> row or NoRow
  appointments,  \* appointments table: id -> row or NoRow
  response,      \* { error } the last statement returned to its client
  requests,      \* createAppointment requests in flight, per caller
  patientDashboard,  \* PatientDashboard component state: appointments, loading
  doctorDashboard,   \* DoctorDashboard component state
  toast,             \* title of the last toast a dashboard showed
  realtime,          \* change events not yet delivered, responses in flight
  mounts             \* which dashboards are mounted, the channels they opened

views == <<patientDashboard, doctorDashboard, toast>>
rest == <<availabilities, realtime, mounts>>
vars == <<authUsers, profiles, doctors, availabilities, appointments, response,
         requests, views, realtime, mounts>>

\* ------------------------------------------------------------ SQL helpers
\* SQL "a = b": unknown (treated as false by a policy) when a side is NULL.
SqlEq(a, b) == a # NULL /\ b # NULL /\ a = b

\* EXISTS (SELECT 1 FROM profiles WHERE id = auth.uid() AND role = 'admin')
IsAdmin(uid) == \E id \in Users : SqlEq(id, uid) /\ profiles[id].role = "admin"

\* EXISTS (SELECT 1 FROM doctors WHERE profile_id = auth.uid() AND id = doctor_id)
OwnsDoctor(uid, doctor_id) ==
  \E d \in DoctorIds : /\ doctors[d] # NoRow
                       /\ SqlEq(doctors[d].profile_id, uid)
                       /\ SqlEq(d, doctor_id)

\* ------------------------------------------- row level security policies
PatientsCanViewOwn(uid, row)  == SqlEq(uid, row.patient_id)
\* The doctors' policy without "AND doctors.id = appointments.doctor_id".
DoctorsCanViewAny(uid, row) ==
  \E d \in DoctorIds : doctors[d] # NoRow /\ SqlEq(doctors[d].profile_id, uid)
DoctorsCanViewTheirs(uid, row) == OwnsDoctor(uid, row.doctor_id)
AdminsCanViewAll(uid, row)     == IsAdmin(uid)

PatientsCanCreate(uid, new) ==
  /\ SqlEq(uid, new.patient_id)
  /\ \E id \in Users : SqlEq(id, uid) /\ profiles[id].email_confirmed = TRUE

PatientsCanCancelUsing(uid, old) == SqlEq(uid, old.patient_id)
PatientsCanCancelCheck(uid, new) ==
  /\ SqlEq(uid, new.patient_id)
  /\ new.status = "cancelled"
  /\ SqlEq(new.cancelled_by, "patient")

DoctorsCanUpdateUsing(uid, old) == OwnsDoctor(uid, old.doctor_id)
DoctorsCanUpdateCheck(uid, new) == OwnsDoctor(uid, new.doctor_id)

\* FOR ALL, USING only: the same expression gates reads, inserts, updates
\* (stored and new row) and deletes.
AdminsManageAll(uid, row) == IsAdmin(uid)

\* Permissive policies are OR-ed, per command and per kind of expression.
SelectUsing(uid, row) ==
  \/ PatientsCanViewOwn(uid, row)
  \/ DoctorsCanViewTheirs(uid, row)
  \/ AdminsCanViewAll(uid, row)
  \/ AdminsManageAll(uid, row)

InsertWithCheck(uid, new) ==
  \/ PatientsCanCreate(uid, new)
  \/ AdminsManageAll(uid, new)

\* The admin policy declared FOR SELECT instead of FOR ALL.
UpdateUsingAdminReadOnly(uid, old) ==
  /\ SelectUsing(uid, old)
  /\ \/ PatientsCanCancelUsing(uid, old)
     \/ DoctorsCanUpdateUsing(uid, old)

UpdateUsing(uid, old) ==
  /\ SelectUsing(uid, old)      \* the WHERE id = ... needs read access
  /\ \/ PatientsCanCancelUsing(uid, old)
     \/ DoctorsCanUpdateUsing(uid, old)
     \/ AdminsManageAll(uid, old)

UpdateWithCheck(uid, new) ==
  \/ PatientsCanCancelCheck(uid, new)
  \/ DoctorsCanUpdateCheck(uid, new)
  \/ AdminsManageAll(uid, new)

\* The only policy that covers DELETE is the FOR ALL policy of the admins.
DeleteUsing(uid, old) ==
  /\ SelectUsing(uid, old)      \* the WHERE id = ... needs read access
  /\ AdminsManageAll(uid, old)

\* ------------------------------------------------ constraints of the table
\* status ... CHECK (status IN (...)), cancelled_by ... CHECK (... IN (...))
RowConstraints(new) ==
  /\ new.status \in Statuses
  /\ new.cancelled_by \in CancelledBy

\* doctor_id uuid REFERENCES doctors(id)
ForeignKeys(new) ==
  new.doctor_id = NULL \/ (new.doctor_id \in DoctorIds /\ doctors[new.doctor_id] # NoRow)

SameSlot(a, b) ==
  /\ SqlEq(a.doctor_id, b.doctor_id)
  /\ a.appointment_date = b.appointment_date
  /\ a.appointment_time = b.appointment_time

\* The index created without UNIQUE: it refuses nothing.
NoDoubleBookingNotUnique(tbl, id, new) == TRUE

\* The index without its WHERE clause: unique over the rows of every status.
NoDoubleBookingAllStatuses(tbl, id, new) ==
  \A j \in ApptIds \ {id} : tbl[j] # NoRow => ~SameSlot(tbl[j], new)

\* The index with its predicate narrowed to WHERE status = 'pending'.
NoDoubleBookingPendingOnly(tbl, id, new) ==
  new.status = "pending" =>
    \A j \in ApptIds \ {id} :
      (tbl[j] # NoRow /\ tbl[j].status = "pending") => ~SameSlot(tbl[j], new)

\* idx_appointments_no_double_booking: unique on (doctor_id, date, time)
\* over the rows WHERE status IN ('pending', 'confirmed').
NoDoubleBooking(tbl, id, new) ==
  new.status \in ActiveStatuses =>
    \A j \in ApptIds \ {id} :
      (tbl[j] # NoRow /\ tbl[j].status \in ActiveStatuses) => ~SameSlot(tbl[j], new)

\* ----------------------------------------------------------- statements
\* Outcome of a statement.  "ok" and "zero_rows" (no row passed the USING
\* expressions, nothing written) both reach the client as { error: null }.
Error(outcome) == IF outcome \in {"ok", "zero_rows"} THEN NULL ELSE outcome

FreeIds == {i \in ApptIds : appointments[i] = NoRow}
\* gen_random_uuid(): a fresh key; the model hands out the least unused one.
NewId == CHOOSE i \in FreeIds : \A j \in FreeIds : i <= j

InsertOutcome(uid, id, new) ==
  IF ~InsertWithCheck(uid, new) THEN "Forbidden"
  ELSE IF ~RowConstraints(new) THEN "CheckViolation"
  ELSE IF ~NoDoubleBooking(appointments, id, new) THEN "SlotTaken"
  ELSE IF ~ForeignKeys(new) THEN "ForeignKeyViolation"
  ELSE "ok"

\* INSERT INTO appointments ... as caller uid
InsertAppointment(uid, new) ==
  /\ FreeIds # {}
  /\ LET id  == NewId
         out == InsertOutcome(uid, id, new)
     IN /\ response' = Error(out)
        /\ appointments' = IF out = "ok" THEN [appointments EXCEPT ![id] = new]
                           ELSE appointments

\* A patch written one column per statement, of which only the first,
\* SET status, is carried out.
ApplyPatchStatusOnly(old, patch) ==
  [c \in Columns |-> IF c = "status" /\ c \in DOMAIN patch THEN patch[c] ELSE old[c]]

ApplyPatch(old, patch) ==
  [c \in Columns |-> IF c \in DOMAIN patch THEN patch[c] ELSE old[c]]

UpdateOutcome(uid, id, new) ==
  IF appointments[id] = NoRow THEN "zero_rows"
  ELSE IF ~UpdateUsing(uid, appointments[id]) THEN "zero_rows"
  ELSE IF ~UpdateWithCheck(uid, new) THEN "Forbidden"
  ELSE IF ~RowConstraints(new) THEN "CheckViolation"
  ELSE IF ~NoDoubleBooking(appointments, id, new) THEN "SlotTaken"
  ELSE IF ~ForeignKeys(new) THEN "ForeignKeyViolation"
  ELSE "ok"

\* UPDATE appointments SET <patch> WHERE id = ... as caller uid
UpdateAppointment(uid, id, patch) ==
  LET old == appointments[id]
      new == IF old = NoRow THEN NoRow ELSE ApplyPatch(old, patch)
      out == UpdateOutcome(uid, id, new)
  IN /\ response' = Error(out)
     /\ appointments' = IF out = "ok" THEN [appointments EXCEPT ![id] = new]
                        ELSE appointments

\* SELECT ... FROM appointments as caller uid: the rows returned.
Readable(uid) ==
  {i \in ApptIds : appointments[i] # NoRow /\ SelectUsing(uid, appointments[i])}

\* DELETE FROM appointments WHERE id = ... as caller uid.  A row that fails
\* the USING expression is skipped: nothing is deleted and no error is raised.
DeleteAppointment(uid, id) ==
  LET old == appointments[id]
      hit == old # NoRow /\ DeleteUsing(uid, old)
  IN /\ response' = NULL
     /\ appointments' = IF hit THEN [appointments EXCEPT ![id] = NoRow]
                        ELSE appointments

\* ------------------------------------------------------ inputs of the model
\* Rows a client may send to INSERT (status defaults to 'pending' but is an
\* ordinary column the client may set).
InsertRows ==
  [patient_id : {"p1", "d1"}, doctor_id : DoctorIds,
   appointment_date : Dates, appointment_time : Times,
   status : Statuses, doctor_note : {NULL}, cancelled_by : {NULL}]

\* Column sets a client may send to UPDATE.
Patches ==
  [status : Statuses]
  \cup [status : {"cancelled"}, cancelled_by : {"patient"}]
  \cup [doctor_id : DoctorIds]
  \cup [appointment_time : Times]

\* ------------------------------------------------------------------- Init
InitProfiles ==
  [u \in Users |->
     [role |-> CASE u \in {"p1", "p2"} -> "patient"
                 [] u \in {"d1", "d2"} -> "doctor"
                 [] OTHER -> "admin",
      email_confirmed |-> u # "p2"]]

\* auth.users rows the profiles were provisioned from (handle_new_user sets
\* email_confirmed to email_confirmed_at IS NOT NULL).
InitAuthUsers ==
  [u \in Users |-> [email_confirmed_at |-> InitProfiles[u].email_confirmed]]

InitDoctors ==
  [d \in DoctorIds |-> [profile_id |-> IF d = "D1" THEN "d1" ELSE "d2"]]

NoReq == [none |-> TRUE]
NoSelection == [null |-> TRUE]     \* selectedAppointment === null

AvailIds == 1..MaxAvail

\* No availability has been entered, no change event is waiting and no
\* query of a dashboard is in flight.
InitAvailabilities == [a \in AvailIds |-> NoRow]
InitRealtime == [events |-> 0, fetches |-> {}]

\* The two dashboards are on screen, rendered for callers whose profile
\* useAuth() has loaded.  profile is profile?.id as PatientDashboard reads
\* it (NULL: undefined); the channels of a dashboard are listed by the value
\* their filter was built with, oldest first; patientQuery is the patient_id
\* of the last query of the mounted PatientDashboard; doctorEffect records
\* that the effect on [doctorId] has run for the doctorId now set.
InitMounts ==
  [profile |-> "p1",
   patientMounted |-> TRUE, patientChannels |-> <<>>, patientQuery |-> "none",
   doctorMounted |-> TRUE, doctorEffect |-> FALSE, doctorChannels |-> <<>>]

\* useState initial values of the two dashboards.  fetchedDoctorId is not a
\* useState: it records that the effect on [profile], which runs once after
\* mount, has carried out its fetchDoctorId.  doctorNoteFor is not one
\* either: it records which appointment was selected when the text now in
\* doctorNote was typed.
NewPatientDashboard == [appointments |-> <<>>, loading |-> TRUE]

NewDoctorDashboard ==
  [doctorId |-> NULL, appointments |-> <<>>, loading |-> TRUE,
   selectedAppointment |-> NoSelection, doctorNote |-> "",
   actionDialog |-> NULL, fetchedDoctorId |-> FALSE, doctorNoteFor |-> NULL]

InitViews ==
  /\ patientDashboard = NewPatientDashboard
  /\ doctorDashboard = NewDoctorDashboard
  /\ toast = NULL

Init ==
  /\ authUsers = InitAuthUsers
  /\ profiles = InitProfiles
  /\ doctors = InitDoctors
  /\ appointments = [i \in ApptIds |-> NoRow]
  /\ response = NULL
  /\ requests = [u \in Users |-> NoReq]
  /\ InitViews
  /\ availabilities = InitAvailabilities
  /\ realtime = InitRealtime
  /\ mounts = InitMounts

\* ------------------------------------------------------------------ actions
Insert ==
  \E uid \in Callers, new \in InsertRows :
    /\ InsertAppointment(uid, new)
    /\ UNCHANGED <<rest, authUsers, profiles, doctors, requests, views>>

Update ==
  \E uid \in Callers, id \in ApptIds, patch \in Patches :
    /\ UpdateAppointment(uid, id, patch)
    /\ UNCHANGED <<rest, authUsers, profiles, doctors, requests, views>>

Next == Insert \/ Update

Spec == Init /\ [][Next]_vars

Exists(i) == appointments[i] # NoRow
Role(uid) == profiles[uid].role

\* --------------------------------------------- concurrent creation requests
\* A createAppointment request travels to the storage layer and is applied
\* there as one INSERT; the unique index serialises the INSERTs of one slot,
\* so the requests of different callers are applied one after the other in
\* some order.  requests[uid] is the caller's outstanding request and, once
\* applied, its outcome.
Submitters == {"p1", "p2"}

\* The row of a booking: the caller as patient, status left to its DEFAULT.
CreateRows(uid) ==
  [patient_id : {uid}, doctor_id : DoctorIds,
   appointment_date : Dates, appointment_time : Times,
   status : {"pending"}, doctor_note : {NULL}, cancelled_by : {NULL}]

InitConcurrent ==
  /\ authUsers = [InitAuthUsers EXCEPT !["p2"].email_confirmed_at = TRUE]
  /\ profiles = [InitProfiles EXCEPT !["p2"].email_confirmed = TRUE]
  /\ doctors = InitDoctors
  /\ appointments = [i \in ApptIds |-> NoRow]
  /\ response = NULL
  /\ requests = [u \in Users |-> NoReq]
  /\ InitViews
  /\ availabilities = InitAvailabilities
  /\ realtime = InitRealtime
  /\ mounts = InitMounts

InFlight(uid) == requests[uid] # NoReq /\ requests[uid].state = "sent"

SubmitCreate ==
  \E uid \in Submitters : \E new \in CreateRows(uid) :
    /\ ~InFlight(uid)
    /\ requests' = [requests EXCEPT ![uid] = [row |-> new, state |-> "sent"]]
    /\ UNCHANGED <<rest, authUsers, profiles, doctors, appointments, response, views>>

ApplyCreateOf(uid) ==
  /\ InFlight(uid)
  /\ InsertAppointment(uid, requests[uid].row)
  /\ requests' = [requests EXCEPT
                    ![uid].state = InsertOutcome(uid, NewId, requests[uid].row)]
  /\ UNCHANGED <<rest, authUsers, profiles, doctors, views>>

ApplyCreate == \E uid \in Submitters : ApplyCreateOf(uid)

\* A patient cancels an appointment of theirs, which frees its slot.
CancelOwn ==
  \E uid \in Submitters, id \in ApptIds :
    /\ Exists(id)
    /\ UpdateAppointment(uid, id, [status |-> "cancelled", cancelled_by |-> "patient"])
    /\ UNCHANGED <<rest, authUsers, profiles, doctors, requests, views>>

NextConcurrent == SubmitCreate \/ ApplyCreate \/ CancelOwn

SpecConcurrent == InitConcurrent /\ [][NextConcurrent]_vars

\* ------------------------------------------------------------- dashboards
\* The signed-in users of the two dashboards (useAuth().profile).
PatientUser == "p1"
DoctorUser  == "d1"

\* The query with .order('appointment_time', asc) alone.
InOrderByTime(a, b) == a.appointment_time <= b.appointment_time

\* .order('appointment_date', asc).order('appointment_time', asc)
InOrder(a, b) ==
  \/ a.appointment_date < b.appointment_date
  \/ /\ a.appointment_date = b.appointment_date
     /\ a.appointment_time <= b.appointment_time

\* The orders in which a query may return the rows ids: any order that is
\* ascending in (date, time); rows equal in both come in either order.
QueryResults(ids) ==
  {q \in [1..Cardinality(ids) -> ids] :
     /\ \A k, l \in DOMAIN q : k # l => q[k] # q[l]
     /\ \A k, l \in DOMAIN q :
          k < l => InOrder(appointments[q[k]], appointments[q[l]])}

\* What a dashboard keeps of a query result: the fields its handlers read.
Loaded(q) == [k \in DOMAIN q |-> [id |-> q[k], status |-> appointments[q[k]].status]]

\* select(...).eq(column, value) as caller uid: the rows whose column equals
\* value among those the SELECT policies show uid.
SelectEq(uid, column, value) ==
  {i \in ApptIds : /\ Exists(i)
                   /\ SelectUsing(uid, appointments[i])
                   /\ SqlEq(appointments[i][column], value)}

\* PatientDashboard.fetchAppointments
PatientFetchAppointments ==
  /\ \E q \in QueryResults(SelectEq(PatientUser, "patient_id", PatientUser)) :
       patientDashboard' = [appointments |-> Loaded(q), loading |-> FALSE]
  /\ UNCHANGED <<rest, authUsers, profiles, doctors, appointments, response, requests,
                 doctorDashboard, toast>>

\* PatientDashboard.cancelAppointment, reached from the Cancel button, which
\* is rendered for the loaded appointments of status 'pending'.
CancelAppointment ==
  \E k \in DOMAIN patientDashboard.appointments :
    /\ ~patientDashboard.loading
    /\ patientDashboard.appointments[k].status = "pending"
    /\ UpdateAppointment(PatientUser, patientDashboard.appointments[k].id,
                         [status |-> "cancelled", cancelled_by |-> "patient"])
    /\ toast' = IF response' = NULL THEN "Appointment cancelled" ELSE "Error"
    /\ UNCHANGED <<rest, authUsers, profiles, doctors, requests, patientDashboard, doctorDashboard>>

\* SELECT id FROM doctors WHERE profile_id = ... ("Doctors are viewable by
\* everyone"): the ids of the matching rows.
DoctorsOfProfile(profile_id) ==
  {d \in DoctorIds : doctors[d] # NoRow /\ SqlEq(doctors[d].profile_id, profile_id)}

\* DoctorDashboard.fetchDoctorId, run by the effect on [profile]:
\* doctors ... .eq('profile_id', profile.id).single(); if (data) setDoctorId.
\* With no matching row data is null and nothing is set.
FetchDoctorId ==
  /\ ~doctorDashboard.fetchedDoctorId
  /\ LET found == DoctorsOfProfile(DoctorUser)
     IN IF Cardinality(found) = 1
        THEN \E d \in found :
               doctorDashboard' = [doctorDashboard EXCEPT !.doctorId = d,
                                                         !.fetchedDoctorId = TRUE]
        ELSE doctorDashboard' = [doctorDashboard EXCEPT !.fetchedDoctorId = TRUE]
  /\ UNCHANGED <<rest, authUsers, profiles, doctors, appointments, response, requests,
                 patientDashboard, toast>>

\* DoctorDashboard.fetchAppointments
DoctorFetchAppointments ==
  /\ doctorDashboard.doctorId # NULL
  /\ \E q \in QueryResults(SelectEq(DoctorUser, "doctor_id", doctorDashboard.doctorId)) :
       doctorDashboard' = [doctorDashboard EXCEPT !.appointments = Loaded(q),
                                                 !.loading = FALSE]
  /\ UNCHANGED <<rest, authUsers, profiles, doctors, appointments, response, requests,
                 patientDashboard, toast>>

\* The Accept and Reject buttons of a card of pendingAppointments.
OpenActionDialog ==
  \E k \in DOMAIN doctorDashboard.appointments, action \in {"confirm", "reject"} :
    /\ ~doctorDashboard.loading
    /\ doctorDashboard.actionDialog = NULL
    /\ doctorDashboard.appointments[k].status = "pending"
    /\ doctorDashboard' =
         [doctorDashboard EXCEPT !.selectedAppointment = doctorDashboard.appointments[k],
                                 !.actionDialog = action]
    /\ UNCHANGED <<rest, authUsers, profiles, doctors, appointments, response, requests,
                   patientDashboard, toast>>

\* The Textarea of the open dialog: setDoctorNote(e.target.value)
TypeDoctorNote ==
  \E text \in {"", "note"} :
    /\ doctorDashboard.actionDialog # NULL
    /\ doctorDashboard' =
         [doctorDashboard EXCEPT
            !.doctorNote = text,
            !.doctorNoteFor = IF text = "" THEN NULL
                              ELSE doctorDashboard.selectedAppointment.id]
    /\ UNCHANGED <<rest, authUsers, profiles, doctors, appointments, response, requests,
                   patientDashboard, toast>>

\* The dialog's Cancel button and onOpenChange: setActionDialog(null)
DismissActionDialog ==
  /\ doctorDashboard.actionDialog # NULL
  /\ doctorDashboard' = [doctorDashboard EXCEPT !.actionDialog = NULL]
  /\ UNCHANGED <<rest, authUsers, profiles, doctors, appointments, response, requests,
                 patientDashboard, toast>>

\* doctorNote || null
NoteOrNull(text) == IF text = "" THEN NULL ELSE text

Outcome(action) == IF action = "confirm" THEN "confirmed" ELSE "rejected"

\* DoctorDashboard.handleAppointmentAction
HandleAppointmentAction ==
  /\ doctorDashboard.selectedAppointment # NoSelection
  /\ doctorDashboard.actionDialog # NULL
  /\ UpdateAppointment(DoctorUser, doctorDashboard.selectedAppointment.id,
                       [status |-> Outcome(doctorDashboard.actionDialog),
                        doctor_note |-> NoteOrNull(doctorDashboard.doctorNote)])
  /\ IF response' = NULL
     THEN /\ toast' = "Appointment " \o Outcome(doctorDashboard.actionDialog)
          /\ doctorDashboard' = [doctorDashboard EXCEPT !.actionDialog = NULL,
                                                        !.selectedAppointment = NoSelection,
                                                        !.doctorNote = "",
                                                        !.doctorNoteFor = NULL]
     ELSE /\ toast' = "Error"
          /\ doctorDashboard' = doctorDashboard
  /\ UNCHANGED <<rest, authUsers, profiles, doctors, requests, patientDashboard>>

\* The patient books: one INSERT of a row with the caller as patient.
Book ==
  \E new \in CreateRows(PatientUser) :
    /\ InsertAppointment(PatientUser, new)
    /\ UNCHANGED <<rest, authUsers, profiles, doctors, requests, views>>

NextDash ==
  \/ Book
  \/ PatientFetchAppointments
  \/ CancelAppointment
  \/ FetchDoctorId
  \/ DoctorFetchAppointments
  \/ OpenActionDialog
  \/ TypeDoctorNote
  \/ DismissActionDialog
  \/ HandleAppointmentAction

SpecDash == Init /\ [][NextDash]_vars

\* ------------------------------------------------ managing appointments
\* SpecManage follows the rows a patient books through every status update,
\* every cancel (with each value of cancelled_by) and every delete that any
\* caller may send.
UpdateStatus ==
  \E uid \in Callers, id \in ApptIds, status \in Statuses :
    /\ UpdateAppointment(uid, id, [status |-> status])
    /\ UNCHANGED <<rest, authUsers, profiles, doctors, requests, views>>

Cancel ==
  \E uid \in Callers, id \in ApptIds, by \in CancelledBy \ {NULL} :
    /\ UpdateAppointment(uid, id, [status |-> "cancelled", cancelled_by |-> by])
    /\ UNCHANGED <<rest, authUsers, profiles, doctors, requests, views>>

Delete ==
  \E uid \in Callers, id \in ApptIds :
    /\ DeleteAppointment(uid, id)
    /\ UNCHANGED <<rest, authUsers, profiles, doctors, requests, views>>

NextManage ==
  \/ Book
  \/ UpdateStatus
  \/ Cancel
  \/ Delete

SpecManage == Init /\ [][NextManage]_vars

\* --------------------------------------------------------------- profiles
\* "Users can update their own profile": USING and WITH CHECK are both
\* auth.uid() = id.  No other policy covers UPDATE of profiles.
UsersCanUpdateOwnUsing(uid, id) == SqlEq(uid, id)
UsersCanUpdateOwnCheck(uid, id) == SqlEq(uid, id)

\* role ... CHECK (role IN ('patient', 'doctor', 'admin'))
ProfileConstraints(new) == new.role \in Roles

ProfileColumns == {"role", "email_confirmed"}

ApplyProfilePatch(old, patch) ==
  [c \in ProfileColumns |-> IF c \in DOMAIN patch THEN patch[c] ELSE old[c]]

UpdateProfileOutcome(uid, id, new) ==
  IF ~UsersCanUpdateOwnUsing(uid, id) THEN "zero_rows"
  ELSE IF ~UsersCanUpdateOwnCheck(uid, id) THEN "Forbidden"
  ELSE IF ~ProfileConstraints(new) THEN "CheckViolation"
  ELSE "ok"

\* UPDATE profiles SET <patch> WHERE id = ... as caller uid
UpdateProfileRow(uid, id, patch) ==
  LET new == ApplyProfilePatch(profiles[id], patch)
      out == UpdateProfileOutcome(uid, id, new)
  IN /\ response' = Error(out)
     /\ profiles' = IF out = "ok" THEN [profiles EXCEPT ![id] = new]
                    ELSE profiles

\* Trigger function update_profile_email_confirmed (SECURITY DEFINER), run
\* for the auth.users row (NEW in the function, new here) after an update of email_confirmed_at.
update_profile_email_confirmed(tbl, id, new) ==
  [tbl EXCEPT ![id].email_confirmed = new.email_confirmed_at]

\* Profiles the model lets change, and the column sets a client may send.
ProfileIds == {"p1", "p2"}

ProfilePatches ==
  [role : Roles \cup {"root"}] \cup [email_confirmed : {TRUE}]

UpdateProfile ==
  \E uid \in Callers, id \in ProfileIds, patch \in ProfilePatches :
    /\ UpdateProfileRow(uid, id, patch)
    /\ UNCHANGED <<rest, authUsers, doctors, appointments, requests, views>>

\* The identity subsystem sets or clears email_confirmed_at of an identity;
\* the trigger on_auth_user_email_confirmed copies it into the profile.
UpdateAuthUser ==
  \E id \in ProfileIds, confirmed \in BOOLEAN :
    LET new == [email_confirmed_at |-> confirmed]
    IN /\ authUsers' = [authUsers EXCEPT ![id] = new]
       /\ profiles' = update_profile_email_confirmed(profiles, id, new)
       /\ UNCHANGED <<rest, doctors, appointments, response, requests, views>>

\* A patient books: one INSERT of a pending row with the caller as patient.
Create ==
  \E uid \in Submitters : \E new \in CreateRows(uid) :
    /\ InsertAppointment(uid, new)
    /\ UNCHANGED <<rest, authUsers, profiles, doctors, requests, views>>

NextProfiles ==
  \/ UpdateProfile
  \/ UpdateAuthUser
  \/ Create

SpecProfiles == Init /\ [][NextProfiles]_vars

\* ------------------------------------------------- provisioning a doctor
\* "Admins can manage doctors" FOR ALL, USING only.
AdminsManageDoctors(uid, row) == IsAdmin(uid)

\* profile_id uuid UNIQUE
ProfileIdUnique(tbl, id, new) ==
  new.profile_id # NULL =>
    \A d \in DoctorIds \ {id} :
      tbl[d] # NoRow => ~SqlEq(tbl[d].profile_id, new.profile_id)

InsertDoctorOutcome(uid, id, new) ==
  IF ~AdminsManageDoctors(uid, new) THEN "Forbidden"
  ELSE IF ~ProfileIdUnique(doctors, id, new) THEN "Conflict"
  ELSE "ok"

FreeDoctorIds == {d \in DoctorIds : doctors[d] = NoRow}

\* INSERT INTO doctors (profile_id) ... as caller uid
InsertDoctorRow(uid, id, new) ==
  LET out == InsertDoctorOutcome(uid, id, new)
  IN /\ response' = Error(out)
     /\ doctors' = IF out = "ok" THEN [doctors EXCEPT ![id] = new] ELSE doctors

\* profile_id values a client may send: a doctor's profile without a
\* record, one that has a record already, a patient's profile.
DoctorProfileIds == {"d1", "d2", "p1"}

InsertDoctor ==
  \E uid \in Callers, id \in FreeDoctorIds, profile_id \in DoctorProfileIds :
    /\ InsertDoctorRow(uid, id, [profile_id |-> profile_id])
    /\ UNCHANGED <<rest, authUsers, profiles, appointments, requests, views>>

\* SpecProvision starts where the profile of doctor d1 exists (role doctor)
\* and its Doctor record does not yet: an admin may create the record
\* before or after the doctor opens the dashboard.
InitProvision ==
  /\ authUsers = InitAuthUsers
  /\ profiles = InitProfiles
  /\ doctors = [InitDoctors EXCEPT !["D1"] = NoRow]
  /\ appointments = [i \in ApptIds |-> NoRow]
  /\ response = NULL
  /\ requests = [u \in Users |-> NoReq]
  /\ InitViews
  /\ availabilities = InitAvailabilities
  /\ realtime = InitRealtime
  /\ mounts = InitMounts

NextProvision ==
  \/ InsertDoctor
  \/ Book
  \/ PatientFetchAppointments
  \/ CancelAppointment
  \/ FetchDoctorId
  \/ DoctorFetchAppointments

SpecProvision == InitProvision /\ [][NextProvision]_vars

\* ---------------------------------------------------- doctor_availabilities
\* The doctors' policy without "AND doctors.id = doctor_availabilities.doctor_id".
DoctorsManageAnyAvailability(uid, row) ==
  \E d \in DoctorIds : doctors[d] # NoRow /\ SqlEq(doctors[d].profile_id, uid)

\* "Doctors can manage their own availability" FOR ALL, USING only: the
\* caller's profile is joined to the Doctor record the row names.
DoctorsManageOwnAvailability(uid, row) ==
  /\ uid \in Users
  /\ OwnsDoctor(uid, row.doctor_id)

\* "Admins can manage all availabilities" FOR ALL, USING only.
AdminsManageAvailabilities(uid, row) == IsAdmin(uid)

\* FOR ALL without WITH CHECK: the USING expression gates the stored row of
\* an update or delete and the new row of an insert or update.
AvailabilityUsing(uid, row) ==
  \/ DoctorsManageOwnAvailability(uid, row)
  \/ AdminsManageAvailabilities(uid, row)

\* weekday int NOT NULL CHECK (weekday BETWEEN 0 AND 6); the table has no
\* constraint that relates start_time and end_time.
AvailabilityConstraints(new) == new.weekday >= 0 /\ new.weekday <= 6

\* doctor_id uuid REFERENCES doctors(id)
AvailabilityForeignKeys(new) ==
  new.doctor_id = NULL \/ (new.doctor_id \in DoctorIds /\ doctors[new.doctor_id] # NoRow)

AvailabilityOutcome(uid, new) ==
  IF ~AvailabilityUsing(uid, new) THEN "Forbidden"
  ELSE IF ~AvailabilityConstraints(new) THEN "CheckViolation"
  ELSE IF ~AvailabilityForeignKeys(new) THEN "ForeignKeyViolation"
  ELSE "ok"

FreeAvailIds == {a \in AvailIds : availabilities[a] = NoRow}
\* gen_random_uuid(): a fresh key; the model hands out the least unused one.
NewAvailId == CHOOSE a \in FreeAvailIds : \A b \in FreeAvailIds : a <= b

\* INSERT INTO doctor_availabilities ... as caller uid
InsertAvailabilityRow(uid, id, new) ==
  LET out == AvailabilityOutcome(uid, new)
  IN /\ response' = Error(out)
     /\ availabilities' = IF out = "ok" THEN [availabilities EXCEPT ![id] = new]
                          ELSE availabilities

AvailabilityColumns == {"doctor_id", "weekday", "start_time", "end_time"}

ApplyAvailabilityPatch(old, patch) ==
  [c \in AvailabilityColumns |-> IF c \in DOMAIN patch THEN patch[c] ELSE old[c]]

\* UPDATE doctor_availabilities SET <patch> WHERE id = ... as caller uid
UpdateAvailabilityRow(uid, id, patch) ==
  LET old == availabilities[id]
      hit == old # NoRow /\ AvailabilityUsing(uid, old)
      new == IF hit THEN ApplyAvailabilityPatch(old, patch) ELSE old
      out == IF hit THEN AvailabilityOutcome(uid, new) ELSE "zero_rows"
  IN /\ response' = Error(out)
     /\ availabilities' = IF out = "ok" THEN [availabilities EXCEPT ![id] = new]
                          ELSE availabilities

\* DELETE FROM doctor_availabilities WHERE id = ... as caller uid
DeleteAvailabilityRow(uid, id) ==
  LET old == availabilities[id]
      hit == old # NoRow /\ AvailabilityUsing(uid, old)
  IN /\ response' = NULL
     /\ availabilities' = IF hit THEN [availabilities EXCEPT ![id] = NoRow]
                          ELSE availabilities

\* Rows and column sets a client may send; weekday 7 is outside the CHECK.
AvailabilityRows ==
  [doctor_id : DoctorIds, weekday : {3, 7}, start_time : Times, end_time : Times]

AvailabilityPatches ==
  [doctor_id : DoctorIds] \cup [weekday : {7}]
  \cup [start_time : Times] \cup [end_time : Times]

InsertAvailability ==
  \E uid \in Callers, new \in AvailabilityRows :
    /\ FreeAvailIds # {}
    /\ InsertAvailabilityRow(uid, NewAvailId, new)
    /\ UNCHANGED <<mounts, realtime, authUsers, profiles, doctors, appointments, requests, views>>

UpdateAvailability ==
  \E uid \in Callers, id \in AvailIds, patch \in AvailabilityPatches :
    /\ UpdateAvailabilityRow(uid, id, patch)
    /\ UNCHANGED <<mounts, realtime, authUsers, profiles, doctors, appointments, requests, views>>

DeleteAvailability ==
  \E uid \in Callers, id \in AvailIds :
    /\ DeleteAvailabilityRow(uid, id)
    /\ UNCHANGED <<mounts, realtime, authUsers, profiles, doctors, appointments, requests, views>>

NextAvailability ==
  \/ InsertAvailability
  \/ UpdateAvailability
  \/ DeleteAvailability

SpecAvailability == Init /\ [][NextAvailability]_vars

\* ------------------------------------------------------ appointment lists
\* SpecLists has the patient book on two days, so that the lists the two
\* dashboards load hold rows that differ in date as well as in time.
ListDates == {1, 2}

ListRows ==
  [patient_id : {PatientUser}, doctor_id : DoctorIds,
   appointment_date : ListDates, appointment_time : Times,
   status : {"pending"}, doctor_note : {NULL}, cancelled_by : {NULL}]

BookOnDay ==
  \E new \in ListRows :
    /\ InsertAppointment(PatientUser, new)
    /\ UNCHANGED <<rest, authUsers, profiles, doctors, requests, views>>

NextLists ==
  \/ BookOnDay
  \/ PatientFetchAppointments
  \/ CancelAppointment
  \/ FetchDoctorId
  \/ DoctorFetchAppointments

SpecLists == Init /\ [][NextLists]_vars

\* ------------------------------------------------------- change events
\* SpecRealtime follows the patient dashboard after its mount: the effect has
\* called fetchAppointments, whose response (of the empty table) has
\* arrived, and has subscribed the channel 'appointments-changes' with the
\* filter patient_id=eq.<profile.id>.  The publication supabase_realtime
\* sends one event for each committed INSERT or UPDATE of a row that passes
\* the filter; the callback of the channel calls fetchAppointments; each
\* response, when it arrives, is given to setAppointments.
InitMounted ==
  /\ authUsers = InitAuthUsers
  /\ profiles = InitProfiles
  /\ doctors = InitDoctors
  /\ availabilities = InitAvailabilities
  /\ appointments = [i \in ApptIds |-> NoRow]
  /\ response = NULL
  /\ requests = [u \in Users |-> NoReq]
  /\ patientDashboard = [appointments |-> <<>>, loading |-> FALSE]
  /\ doctorDashboard = [doctorId |-> NULL, appointments |-> <<>>, loading |-> TRUE,
                        selectedAppointment |-> NoSelection, doctorNote |-> "",
                        actionDialog |-> NULL, fetchedDoctorId |-> FALSE,
                        doctorNoteFor |-> NULL]
  /\ toast = NULL
  /\ realtime = InitRealtime
  /\ mounts = InitMounts

\* Events the publication adds for a statement of the given outcome on a
\* row of the given patient: one, after the commit, if a row was written.
Published(outcome, patient_id) ==
  IF outcome = "ok" /\ SqlEq(patient_id, PatientUser) THEN 1 ELSE 0

\* The patient books; the committed INSERT is published.
BookPublished ==
  \E new \in CreateRows(PatientUser) :
    /\ FreeIds # {}
    /\ realtime.events < MaxEvents
    /\ InsertAppointment(PatientUser, new)
    /\ realtime' = [realtime EXCEPT !.events =
                      @ + Published(InsertOutcome(PatientUser, NewId, new),
                                    new.patient_id)]
    /\ UNCHANGED <<mounts, availabilities, authUsers, profiles, doctors, requests, views>>

\* A doctor decides one of their appointments; the committed UPDATE is
\* published.
DecidePublished ==
  \E uid \in {"d1", "d2"}, id \in ApptIds, status \in {"confirmed", "rejected"} :
    /\ Exists(id)
    /\ realtime.events < MaxEvents
    /\ UpdateAppointment(uid, id, [status |-> status])
    /\ realtime' = [realtime EXCEPT !.events =
                      @ + Published(UpdateOutcome(uid, id,
                                      ApplyPatch(appointments[id], [status |-> status])),
                                    appointments[id].patient_id)]
    /\ UNCHANGED <<mounts, availabilities, authUsers, profiles, doctors, requests, views>>

\* The channel delivers an event: the callback calls fetchAppointments,
\* whose query is answered from the table as it is and travels back.
ReceiveEvent ==
  /\ realtime.events > 0
  /\ Cardinality(realtime.fetches) < MaxFetches
  /\ \E q \in QueryResults(SelectEq(PatientUser, "patient_id", PatientUser)) :
       realtime' = [events |-> realtime.events - 1,
                    fetches |-> realtime.fetches \cup {Loaded(q)}]
  /\ UNCHANGED <<mounts, availabilities, authUsers, profiles, doctors, appointments,
                 response, requests, views>>

\* A response arrives: setAppointments(data), setLoading(false).
ReceiveResponse ==
  \E data \in realtime.fetches :
    /\ patientDashboard' = [appointments |-> data, loading |-> FALSE]
    /\ realtime' = [realtime EXCEPT !.fetches = @ \ {data}]
    /\ UNCHANGED <<mounts, availabilities, authUsers, profiles, doctors, appointments,
                   response, requests, doctorDashboard, toast>>

NextRealtime ==
  \/ BookPublished
  \/ DecidePublished
  \/ ReceiveEvent
  \/ ReceiveResponse

SpecRealtime == InitMounted /\ [][NextRealtime]_vars

\* ------------------------------------------------ reassigned appointments
\* SpecReassign has an admin move appointments between the doctors while
\* the doctor dashboard works on the list it loaded.
Reassign ==
  \E uid \in {"a1"}, id \in ApptIds, doctor_id \in DoctorIds :
    /\ UpdateAppointment(uid, id, [doctor_id |-> doctor_id])
    /\ UNCHANGED <<rest, authUsers, profiles, doctors, requests, views>>

NextReassign ==
  \/ Book
  \/ Reassign
  \/ FetchDoctorId
  \/ DoctorFetchAppointments
  \/ OpenActionDialog
  \/ HandleAppointmentAction

SpecReassign == Init /\ [][NextReassign]_vars

\* ------------------------------------------------ mounting and unmounting
\* SpecMount has the two dashboards mounted and unmounted while the patient
\* books.  No dashboard is on screen at first and useAuth() has not loaded
\* the patient's profile yet.
InitUnmounted ==
  /\ authUsers = InitAuthUsers
  /\ profiles = InitProfiles
  /\ doctors = InitDoctors
  /\ availabilities = InitAvailabilities
  /\ appointments = [i \in ApptIds |-> NoRow]
  /\ response = NULL
  /\ requests = [u \in Users |-> NoReq]
  /\ InitViews
  /\ realtime = InitRealtime
  /\ mounts = [InitMounts EXCEPT !.profile = NULL, !.patientMounted = FALSE,
                                 !.doctorMounted = FALSE]

\* useAuth() gets the profile of the signed-in patient: PatientDashboard
\* renders again, and no effect with the dependencies [] runs again.
ResolveProfile ==
  /\ mounts.profile = NULL
  /\ mounts' = [mounts EXCEPT !.profile = PatientUser]
  /\ UNCHANGED <<availabilities, realtime, authUsers, profiles, doctors, appointments,
                 response, requests, views>>

\* PatientDashboard is mounted and its effect runs, once:
\* fetchAppointments(); subscribeToAppointments(); both of the first render,
\* which read id as profile?.id.  .eq('patient_id', undefined) makes the
\* query fail (patient_id is a UUID): the catch shows the toast and finally
\* sets loading false.  The subscription adds a channel whose filter is
\* patient_id=eq.${id}.
PatientMount ==
  /\ ~mounts.patientMounted
  /\ Len(mounts.patientChannels) < MaxChannels
  /\ LET id == mounts.profile
     IN /\ IF id = NULL
           THEN /\ patientDashboard' = [NewPatientDashboard EXCEPT !.loading = FALSE]
                /\ toast' = "Error"
           ELSE /\ \E q \in QueryResults(SelectEq(PatientUser, "patient_id", id)) :
                     patientDashboard' = [appointments |-> Loaded(q), loading |-> FALSE]
                /\ UNCHANGED toast
        /\ mounts' = [mounts EXCEPT !.patientMounted = TRUE,
                                    !.patientChannels = Append(@, id),
                                    !.patientQuery = id]
  /\ UNCHANGED <<availabilities, realtime, authUsers, profiles, doctors, appointments,
                 response, requests, doctorDashboard>>

\* PatientDashboard is unmounted.  The function of the effect returns
\* nothing (what subscribeToAppointments returns is dropped), so there is no
\* cleanup to run and removeChannel is not called.
PatientUnmount ==
  /\ mounts.patientMounted
  /\ mounts' = [mounts EXCEPT !.patientMounted = FALSE]
  /\ UNCHANGED <<availabilities, realtime, authUsers, profiles, doctors, appointments,
                 response, requests, views>>

\* The open channels of PatientDashboard whose filter the rows of the
\* patient pass; patient_id=eq.undefined is passed by no row.
PatientSubscriptions ==
  {k \in DOMAIN mounts.patientChannels : mounts.patientChannels[k] = PatientUser}

\* The patient books; the committed INSERT is published to the channels
\* that are open.
BookNotified ==
  \E new \in CreateRows(PatientUser) :
    /\ FreeIds # {}
    /\ realtime.events < MaxEvents
    /\ InsertAppointment(PatientUser, new)
    /\ realtime' = [realtime EXCEPT !.events =
                      @ + IF PatientSubscriptions = {} THEN 0
                          ELSE Published(InsertOutcome(PatientUser, NewId, new),
                                         new.patient_id)]
    /\ UNCHANGED <<mounts, availabilities, authUsers, profiles, doctors, requests, views>>

\* An event reaches the open channels: each callback calls the
\* fetchAppointments of the render that subscribed, with the id that render
\* read.  setAppointments acts on the component that is mounted.
PatientChannelCallback ==
  /\ realtime.events > 0
  /\ PatientSubscriptions # {}
  /\ realtime' = [realtime EXCEPT !.events = @ - 1]
  /\ mounts' = [mounts EXCEPT !.patientQuery = PatientUser]
  /\ IF mounts.patientMounted
     THEN \E q \in QueryResults(SelectEq(PatientUser, "patient_id", PatientUser)) :
            patientDashboard' = [appointments |-> Loaded(q), loading |-> FALSE]
     ELSE UNCHANGED patientDashboard
  /\ UNCHANGED <<availabilities, authUsers, profiles, doctors, appointments, response,
                 requests, doctorDashboard, toast>>

\* DoctorDashboard is mounted: a new component with the useState initial
\* values, whose effect on [profile] is still to run.
DoctorMount ==
  /\ ~mounts.doctorMounted
  /\ Len(mounts.doctorChannels) < MaxChannels
  /\ doctorDashboard' = NewDoctorDashboard
  /\ mounts' = [mounts EXCEPT !.doctorMounted = TRUE, !.doctorEffect = FALSE]
  /\ UNCHANGED <<availabilities, realtime, authUsers, profiles, doctors, appointments,
                 response, requests, patientDashboard, toast>>

\* The effect on [profile] of the mounted DoctorDashboard.
MountedFetchDoctorId ==
  /\ mounts.doctorMounted
  /\ FetchDoctorId

\* The effect on [doctorId], run after setDoctorId: if (doctorId) {
\* fetchAppointments(); subscribeToAppointments(); }.  The subscription adds
\* a channel whose filter is doctor_id=eq.${doctorId}.
DoctorIdEffect ==
  /\ mounts.doctorMounted
  /\ ~mounts.doctorEffect
  /\ doctorDashboard.doctorId # NULL
  /\ \E q \in QueryResults(SelectEq(DoctorUser, "doctor_id", doctorDashboard.doctorId)) :
       doctorDashboard' = [doctorDashboard EXCEPT !.appointments = Loaded(q),
                                                 !.loading = FALSE]
  /\ mounts' = [mounts EXCEPT !.doctorEffect = TRUE,
                              !.doctorChannels = Append(@, doctorDashboard.doctorId)]
  /\ UNCHANGED <<availabilities, realtime, authUsers, profiles, doctors, appointments,
                 response, requests, patientDashboard, toast>>

\* DoctorDashboard is unmounted.  Its effects return nothing either.
DoctorUnmount ==
  /\ mounts.doctorMounted
  /\ mounts' = [mounts EXCEPT !.doctorMounted = FALSE]
  /\ UNCHANGED <<availabilities, realtime, authUsers, profiles, doctors, appointments,
                 response, requests, views>>

NextMount ==
  \/ ResolveProfile
  \/ PatientMount
  \/ PatientUnmount
  \/ BookNotified
  \/ PatientChannelCallback
  \/ DoctorMount
  \/ MountedFetchDoctorId
  \/ DoctorIdEffect
  \/ DoctorUnmount

SpecMount == InitUnmounted /\ [][NextMount]_vars

\* ==================================================================== claims

\* The state graph of section 4.3 of the specification.
Transitions ==
  {<<"pending", "confirmed">>, <<"pending", "rejected">>, <<"pending", "cancelled">>,
   <<"confirmed", "cancelled">>, <<"confirmed", "completed">>}

\* Status changes the specification grants a doctor (section 4.2).
DoctorTransitions ==
  {<<"pending", "confirmed">>, <<"pending", "rejected">>, <<"pending", "cancelled">>,
   <<"confirmed", "cancelled">>}

\* C1: in every reachable state, for every doctor and every (date, time) at
\* most one appointment of that doctor and slot has status pending or
\* confirmed.
C1_NoDoubleBooking ==
  \A d \in DoctorIds, dt \in Dates, t \in Times :
    Cardinality({i \in ApptIds : /\ Exists(i)
                                 /\ appointments[i].doctor_id = d
                                 /\ appointments[i].appointment_date = dt
                                 /\ appointments[i].appointment_time = t
                                 /\ appointments[i].status \in ActiveStatuses}) <= 1

\* C1 witness: a statement was refused by the unique index while two
\* appointments share a slot, one of them active and one terminal.
C1_Witness ==
  /\ response = "SlotTaken"
  /\ \E i, j \in ApptIds :
       /\ i # j /\ Exists(i) /\ Exists(j)
       /\ SameSlot(appointments[i], appointments[j])
       /\ appointments[i].status \in ActiveStatuses
       /\ appointments[j].status \in TerminalStatuses

SlotFree(row) ==
  \A j \in ApptIds :
    (Exists(j) /\ appointments[j].status \in ActiveStatuses) => ~SameSlot(appointments[j], row)

Authorized(uid) == Role(uid) = "patient" /\ profiles[uid].email_confirmed

\* C2: of two creation requests for one free slot that two authorized
\* patients have in flight at the same time, the one applied first succeeds
\* and takes the slot while the other stays outstanding; a request applied
\* while its slot is taken fails with SlotTaken and inserts nothing.  So
\* exactly one of the two succeeds.
C2_ConcurrentCreate ==
  [][/\ \A u1, u2 \in Submitters :
          (/\ u1 # u2 /\ InFlight(u1) /\ InFlight(u2)
           /\ Authorized(u1) /\ Authorized(u2)
           /\ SameSlot(requests[u1].row, requests[u2].row)
           /\ SlotFree(requests[u1].row)
           /\ ApplyCreateOf(u1))
          => /\ requests'[u1].state = "ok"
             /\ InFlight(u2)'
             /\ ~SlotFree(requests[u2].row)'
     /\ \A u \in Submitters :
          (InFlight(u) /\ Authorized(u) /\ ~SlotFree(requests[u].row) /\ ApplyCreateOf(u))
          => /\ requests'[u].state = "SlotTaken"
             /\ response' = "SlotTaken"
             /\ appointments' = appointments]_vars

\* C2 witness: both patients asked for the same slot; one request succeeded
\* and holds the slot, the other was refused with SlotTaken.
C2_Witness ==
  \E u1, u2 \in Submitters :
    /\ u1 # u2 /\ requests[u1] # NoReq /\ requests[u2] # NoReq
    /\ SameSlot(requests[u1].row, requests[u2].row)
    /\ requests[u1].state = "ok" /\ requests[u2].state = "SlotTaken"
    /\ Cardinality({i \in ApptIds : Exists(i)}) = 1
    /\ \E i \in ApptIds : Exists(i) /\ appointments[i] = requests[u1].row

\* C3: every status change of an appointment is an edge of the state graph
\* pending -> {confirmed, rejected, cancelled}, confirmed -> {cancelled,
\* completed}; a terminal status never changes again.
C3_StateMachine ==
  [][\A i \in ApptIds :
       Exists(i) =>
         \/ appointments'[i].status = appointments[i].status
         \/ <<appointments[i].status, appointments'[i].status>> \in Transitions]_vars

\* C4: an appointment a patient creates has status pending at creation.
C4_CreatedPending ==
  [][\A uid \in Users, new \in InsertRows :
       (/\ Role(uid) = "patient"
        /\ InsertAppointment(uid, new)
        /\ appointments' # appointments)
       => new.status = "pending"]_vars

\* C5: a create by a non-admin caller is allowed iff the caller has role
\* patient, has a confirmed email and is the new row's patient; otherwise it
\* is denied and no row is created.
C5_CreateAuthorization ==
  [][\A uid \in Users, new \in InsertRows :
       (Role(uid) # "admin" /\ InsertAppointment(uid, new)) =>
         LET allowed == /\ Role(uid) = "patient"
                        /\ profiles[uid].email_confirmed
                        /\ uid = new.patient_id
         IN /\ allowed => response' # "Forbidden"
            /\ ~allowed => (response' = "Forbidden" /\ appointments' = appointments)]_vars

\* C6: an update by a patient is accepted only if the caller is the
\* appointment's patient, the new status is cancelled, the new cancelledBy is
\* patient and the status before the update is not terminal.
C6_PatientUpdate ==
  [][\A uid \in Users, id \in ApptIds, patch \in Patches :
       (/\ Role(uid) = "patient"
        /\ Exists(id)
        /\ UpdateOutcome(uid, id, ApplyPatch(appointments[id], patch)) = "ok"
        /\ UpdateAppointment(uid, id, patch))
       => /\ uid = appointments[id].patient_id
          /\ appointments'[id].status = "cancelled"
          /\ appointments'[id].cancelled_by = "patient"
          /\ appointments[id].status \notin TerminalStatuses]_vars

\* C7: a cancel by the owning patient on an appointment whose stored status
\* is confirmed fails and leaves the status confirmed.
C7_PatientCancelsPendingOnly ==
  [][\A k \in DOMAIN patientDashboard.appointments :
       LET id == patientDashboard.appointments[k].id
       IN (/\ appointments[id].patient_id = PatientUser
           /\ appointments[id].status = "confirmed"
           /\ CancelAppointment
           /\ UpdateAppointment(PatientUser, id,
                                [status |-> "cancelled", cancelled_by |-> "patient"]))
          => /\ response' # NULL
             /\ appointments'[id].status = "confirmed"]_vars

\* C8: the only status changes a doctor makes to an appointment of theirs are
\* pending -> confirmed, pending -> rejected, pending -> cancelled and
\* confirmed -> cancelled.
C8_DoctorTransitions ==
  [][\A uid \in Users, id \in ApptIds, patch \in Patches :
       (/\ Role(uid) = "doctor"
        /\ Exists(id)
        /\ OwnsDoctor(uid, appointments[id].doctor_id)
        /\ UpdateAppointment(uid, id, patch)
        /\ appointments'[id].status # appointments[id].status)
       => <<appointments[id].status, appointments'[id].status>> \in DoctorTransitions]_vars

\* C9: an update by a doctor on an appointment of another doctor leaves the
\* appointment unchanged, and no update by a doctor changes an appointment's
\* doctor.  (The caller's own cancellation as the appointment's patient is
\* left aside: the patient rule grants it.)
C9_DoctorOwnership ==
  [][\A uid \in Users, id \in ApptIds, patch \in Patches :
       (/\ Role(uid) = "doctor"
        /\ Exists(id)
        /\ UpdateAppointment(uid, id, patch)
        /\ ~PatientsCanCancelCheck(uid, ApplyPatch(appointments[id], patch)))
       => /\ ~OwnsDoctor(uid, appointments[id].doctor_id)
               => appointments'[id] = appointments[id]
          /\ appointments'[id].doctor_id = appointments[id].doctor_id]_vars

\* C10: a decide applied to an appointment whose stored status is not pending
\* fails and leaves the appointment as it is; an appointment the patient
\* cancelled after the doctor's dashboard loaded it stays cancelled.
C10_DecideOnlyPending ==
  [][(/\ HandleAppointmentAction
      /\ appointments[doctorDashboard.selectedAppointment.id].status # "pending")
     => /\ response' # NULL
        /\ appointments' = appointments]_vars

\* A step of the patient dashboard's cancelAppointment whose request names
\* appointment id.
CancelCall(id) ==
  /\ CancelAppointment
  /\ \E k \in DOMAIN patientDashboard.appointments :
       /\ patientDashboard.appointments[k].id = id
       /\ patientDashboard.appointments[k].status = "pending"
  /\ UpdateAppointment(PatientUser, id,
                       [status |-> "cancelled", cancelled_by |-> "patient"])

\* C11: a cancel that succeeds on a non-terminal appointment leaves it
\* cancelled with cancelledBy the role of the caller, and a cancel of an
\* appointment whose status is rejected, cancelled or completed fails and
\* changes nothing.
C11_Cancel ==
  [][\A id \in ApptIds :
       (Exists(id) /\ CancelCall(id)) =>
         IF appointments[id].status \in TerminalStatuses
         THEN /\ response' # NULL
              /\ appointments' = appointments
         ELSE response' = NULL =>
                /\ appointments'[id].status = "cancelled"
                /\ appointments'[id].cancelled_by = Role(PatientUser)]_vars

\* C12: every cancel of an appointment that is already cancelled fails, is
\* reported as a failure, and leaves every field of the appointment as it was.
C12_CancelCancelled ==
  [][\A id \in ApptIds :
       (Exists(id) /\ appointments[id].status = "cancelled" /\ CancelCall(id)) =>
         /\ response' # NULL
         /\ toast' = "Error"
         /\ appointments'[id] = appointments[id]]_vars

\* C13: no update made by a caller who is not an admin turns an appointment
\* completed, and an appointment that becomes completed was confirmed
\* immediately before.
C13_CompletedByAdminFromConfirmed ==
  [][/\ \A uid \in Callers, id \in ApptIds, patch \in Patches :
          (/\ ~IsAdmin(uid)
           /\ Exists(id)
           /\ appointments[id].status # "completed"
           /\ UpdateAppointment(uid, id, patch))
            => appointments'[id].status # "completed"
     /\ \A id \in ApptIds :
          (/\ Exists(id)
           /\ appointments[id].status # "completed"
           /\ appointments'[id].status = "completed")
            => appointments[id].status = "confirmed"]_vars

\* C14: an admin's cancel of an appointment that is pending or confirmed is
\* accepted and leaves it cancelled with cancelledBy admin, its other fields
\* as they were.
C14_AdminCancel ==
  [][\A uid \in Callers, id \in ApptIds :
       (/\ IsAdmin(uid)
        /\ Exists(id)
        /\ appointments[id].status \in ActiveStatuses
        /\ UpdateAppointment(uid, id, [status |-> "cancelled",
                                       cancelled_by |-> "admin"]))
         => /\ response' = NULL
            /\ appointments'[id] = [appointments[id] EXCEPT !.status = "cancelled",
                                                            !.cancelled_by = "admin"]]_vars

\* An appointment of a doctor's, cancelled with cancelledBy admin.
C14_Witness ==
  \E id \in ApptIds :
    /\ Exists(id)
    /\ appointments[id].status = "cancelled"
    /\ appointments[id].cancelled_by = "admin"

\* C15: an appointment, once created, exists in every later state.
C15_NoDelete ==
  [][\A id \in ApptIds : Exists(id) => Exists(id)']_vars

\* C16: a caller reads an appointment exactly when the caller is its patient,
\* or has the Doctor record the appointment names, or is an admin; nobody
\* else, and no anonymous caller, reads it.
C16_ReadAccess ==
  \A uid \in Callers, i \in ApptIds :
    Exists(i) =>
      (i \in Readable(uid) <=>
         /\ uid \in Users
         /\ \/ uid = appointments[i].patient_id
            \/ \E d \in DoctorIds : /\ doctors[d] # NoRow
                                    /\ doctors[d].profile_id = uid
                                    /\ d = appointments[i].doctor_id
            \/ profiles[uid].role = "admin")

\* An appointment that doctor d1 made as a patient with doctor D2, next to
\* one that p1 made with D1: d1 reads both, d2 and p1 one each, p2 none.
C16_Witness ==
  \E i, j \in ApptIds :
    /\ Exists(i) /\ Exists(j)
    /\ appointments[i].patient_id = "d1" /\ appointments[i].doctor_id = "D2"
    /\ appointments[j].patient_id = "p1" /\ appointments[j].doctor_id = "D1"
    /\ Readable("d1") = {i, j}
    /\ Readable("d2") = {i}
    /\ Readable("p1") = {j}
    /\ Readable("p2") = {}
    /\ Readable(NULL) = {}
    /\ Readable("a1") = {i, j}

\* C17: the role of a profile never changes after the profile is created.
C17_RoleImmutable ==
  [][\A id \in Users : profiles'[id].role = profiles[id].role]_vars

\* C18: in every reachable state a profile's emailConfirmed is true exactly
\* when the identity subsystem holds the identity's email as verified.
C18_EmailConfirmedIsVerified ==
  \A id \in Users :
    profiles[id].email_confirmed = authUsers[id].email_confirmed_at

\* C19: every decide and every cancel request either commits all the fields
\* of its change in one step (status with doctorNote, status with
\* cancelledBy) and reports success, or reports an error and leaves every
\* appointment as it was; no other appointment is touched.
C19_Atomic ==
  [][/\ HandleAppointmentAction =>
          LET id  == doctorDashboard.selectedAppointment.id
              new == [appointments[id] EXCEPT
                        !.status = Outcome(doctorDashboard.actionDialog),
                        !.doctor_note = NoteOrNull(doctorDashboard.doctorNote)]
          IN IF response' = NULL
             THEN appointments' = [appointments EXCEPT ![id] = new]
             ELSE appointments' = appointments
     /\ \A id \in ApptIds :
          CancelCall(id) =>
            LET new == [appointments[id] EXCEPT !.status = "cancelled",
                                                !.cancelled_by = "patient"]
            IN IF response' = NULL
               THEN appointments' = [appointments EXCEPT ![id] = new]
               ELSE appointments' = appointments]_vars

\* A decision with a note has been committed (status and doctorNote
\* together), and a later request has failed on the occupied slot.
C19_Witness ==
  /\ response = "SlotTaken"
  /\ toast = "Error"
  /\ \E id \in ApptIds :
       /\ Exists(id)
       /\ appointments[id].status \in {"confirmed", "rejected"}
       /\ appointments[id].doctor_note = "note"

\* A step of the doctor dashboard: an effect, a handler or a dialog event.
DoctorDashboardStep ==
  \/ FetchDoctorId
  \/ DoctorFetchAppointments
  \/ OpenActionDialog
  \/ TypeDoctorNote
  \/ DismissActionDialog
  \/ HandleAppointmentAction

\* C20: when the caller's profile has role doctor and no Doctor record is
\* linked to it, the doctor dashboard, once it has no step left to take, is
\* not left loading, and it has loaded no appointments without a doctorId.
C20_ProfileIncomplete ==
  /\ (/\ Role(DoctorUser) = "doctor"
      /\ doctorDashboard.fetchedDoctorId
      /\ doctorDashboard.doctorId = NULL
      /\ ~ENABLED DoctorDashboardStep)
       => ~doctorDashboard.loading
  /\ doctorDashboard.doctorId = NULL => doctorDashboard.appointments = <<>>

\* The caller is the doctor whose Doctor record the availability belongs to,
\* or an admin.
MayManage(uid, row) ==
  /\ uid \in Users
  /\ \/ profiles[uid].role = "admin"
     \/ \E d \in DoctorIds : /\ doctors[d] # NoRow
                             /\ doctors[d].profile_id = uid
                             /\ d = row.doctor_id

\* C21: an insert, update or delete of an availability by a caller who is
\* neither its doctor nor an admin leaves the availabilities unchanged, and
\* a row written by an insert or update belongs, as written, to the caller
\* unless the caller is an admin.
C21_AvailabilityOwnership ==
  [][\A uid \in Callers :
       /\ \A new \in AvailabilityRows :
            (/\ FreeAvailIds # {}
             /\ ~MayManage(uid, new)
             /\ InsertAvailabilityRow(uid, NewAvailId, new))
              => availabilities' = availabilities
       /\ \A id \in AvailIds \ FreeAvailIds :
            /\ \A patch \in AvailabilityPatches :
                 (/\ UpdateAvailabilityRow(uid, id, patch)
                  /\ \/ ~MayManage(uid, availabilities[id])
                     \/ ~MayManage(uid, ApplyAvailabilityPatch(availabilities[id], patch)))
                   => availabilities' = availabilities
            /\ (DeleteAvailabilityRow(uid, id) /\ ~MayManage(uid, availabilities[id]))
                 => availabilities' = availabilities]_vars

\* Doctor D1 has an availability, and the last request, one that tried to
\* write a row for a doctor the caller is not, was denied.
C21_Witness ==
  /\ response = "Forbidden"
  /\ \E a \in AvailIds : /\ availabilities[a] # NoRow
                         /\ availabilities[a].doctor_id = "D1"

\* C22: every stored availability has weekday in 0..6 and startTime < endTime.
C22_AvailabilityWellFormed ==
  \A a \in AvailIds :
    availabilities[a] # NoRow =>
      /\ availabilities[a].weekday \in 0..6
      /\ availabilities[a].start_time < availabilities[a].end_time

\* C23: every Doctor record is linked to a Profile, that Profile has role
\* doctor, and no other Doctor record has the same profileId.
C23_DoctorProfileOneToOne ==
  \A d \in DoctorIds :
    doctors[d] # NoRow =>
      /\ doctors[d].profile_id \in Users
      /\ profiles[doctors[d].profile_id].role = "doctor"
      /\ \A e \in DoctorIds \ {d} :
           doctors[e] # NoRow => doctors[e].profile_id # doctors[d].profile_id

\* A list holds each of the appointments ids once and no other, by date
\* ascending and, among equal dates, by time ascending.
ListOf(list, ids) ==
  /\ Len(list) = Cardinality(ids)
  /\ {list[k].id : k \in DOMAIN list} = ids
  /\ \A k, l \in DOMAIN list :
       k < l =>
         LET a == appointments[list[k].id]
             b == appointments[list[l].id]
         IN \/ a.appointment_date < b.appointment_date
            \/ /\ a.appointment_date = b.appointment_date
               /\ a.appointment_time <= b.appointment_time

\* C24: the list a fetch gives the patient dashboard is the stored
\* appointments whose patientId is the caller's, the list it gives the
\* doctor dashboard those whose doctorId is the caller's Doctor record, each
\* ordered by date and then time.
C24_ListOrderedAndExact ==
  [][/\ PatientFetchAppointments =>
          ListOf(patientDashboard'.appointments,
                 {i \in ApptIds : Exists(i) /\ appointments[i].patient_id = PatientUser})
     /\ DoctorFetchAppointments =>
          ListOf(doctorDashboard'.appointments,
                 {i \in ApptIds : /\ Exists(i)
                                  /\ appointments[i].doctor_id \in DoctorIds
                                  /\ doctors[appointments[i].doctor_id].profile_id = DoctorUser})]_vars

\* The patient's list holds two appointments of which the one on the earlier
\* day has the later time, and the doctor's list holds one of them.
C24_Witness ==
  /\ Len(patientDashboard.appointments) = 2
  /\ LET a == appointments[patientDashboard.appointments[1].id]
         b == appointments[patientDashboard.appointments[2].id]
     IN /\ Exists(patientDashboard.appointments[1].id)
        /\ Exists(patientDashboard.appointments[2].id)
        /\ a.appointment_date < b.appointment_date
        /\ a.appointment_time > b.appointment_time
  /\ Len(doctorDashboard.appointments) = 1

\* C25: when no change event is waiting for delivery and no re-fetch is in
\* flight, the list the subscribed patient dashboard shows is the stored
\* appointments of the patient, each with its stored status.
C25_ListCatchesUp ==
  (realtime.events = 0 /\ realtime.fetches = {}) =>
    /\ {patientDashboard.appointments[k].id : k \in DOMAIN patientDashboard.appointments}
         = {i \in ApptIds : Exists(i) /\ appointments[i].patient_id = PatientUser}
    /\ \A k \in DOMAIN patientDashboard.appointments :
         /\ Exists(patientDashboard.appointments[k].id)
         /\ patientDashboard.appointments[k].status
              = appointments[patientDashboard.appointments[k].id].status

\* C26: the patient's booking of a slot that no pending or confirmed
\* appointment holds succeeds, whatever rejected, cancelled or completed
\* appointments the slot has; and an update that would make an appointment
\* pending or confirmed while another pending or confirmed appointment holds
\* its slot changes nothing, and fails with SlotTaken when sent by the
\* appointment's doctor or an admin.
C26_UniqueAmongActive ==
  [][/\ \A new \in CreateRows(PatientUser) :
          (/\ FreeIds # {}
           /\ Authorized(PatientUser)
           /\ SlotFree(new)
           /\ InsertAppointment(PatientUser, new))
            => /\ response' = NULL
               /\ appointments'[NewId] = new
     /\ \A id \in ApptIds :
          (/\ Exists(id)
           /\ appointments[id].status \in TerminalStatuses
           /\ ~SlotFree(appointments[id]))
            => \A uid \in Callers, status \in ActiveStatuses :
                 UpdateAppointment(uid, id, [status |-> status])
                   => /\ appointments' = appointments
                      /\ (IsAdmin(uid) \/ OwnsDoctor(uid, appointments[id].doctor_id))
                           => response' = "SlotTaken"]_vars

\* A slot with a terminal appointment and a pending or confirmed one booked
\* after it, where bringing the terminal one back has just been refused.
C26_Witness ==
  /\ response = "SlotTaken"
  /\ \E i, j \in ApptIds :
       /\ i < j
       /\ Exists(i) /\ Exists(j)
       /\ SameSlot(appointments[i], appointments[j])
       /\ appointments[i].status \in TerminalStatuses
       /\ appointments[j].status \in ActiveStatuses

\* C27: no update that a caller who is not an admin sends changes the
\* patientId, doctorId, appointmentDate or appointmentTime of an appointment.
C27_SlotAndOwnersFrozen ==
  [][\A uid \in Callers, id \in ApptIds, patch \in Patches :
       (~IsAdmin(uid) /\ Exists(id) /\ UpdateAppointment(uid, id, patch))
         => /\ appointments'[id].patient_id = appointments[id].patient_id
            /\ appointments'[id].doctor_id = appointments[id].doctor_id
            /\ appointments'[id].appointment_date = appointments[id].appointment_date
            /\ appointments'[id].appointment_time = appointments[id].appointment_time]_vars

\* C28: in every reachable state the cancelledBy of an appointment is set
\* exactly when its status is cancelled.
C28_CancelledByIffCancelled ==
  \A i \in ApptIds :
    Exists(i) =>
      (appointments[i].cancelled_by # NULL <=> appointments[i].status = "cancelled")

\* C29: the patient dashboard toasts 'Appointment cancelled' only when the
\* stored appointment is cancelled after the request, and the doctor
\* dashboard toasts 'Appointment confirmed' or 'Appointment rejected' only
\* when the stored status is that outcome after the request.
C29_SuccessMeansApplied ==
  [][/\ \A id \in ApptIds :
          (CancelCall(id) /\ toast' = "Appointment cancelled")
            => /\ appointments'[id] # NoRow
               /\ appointments'[id].status = "cancelled"
     /\ (/\ HandleAppointmentAction
         /\ toast' = "Appointment " \o Outcome(doctorDashboard.actionDialog))
          => LET id == doctorDashboard.selectedAppointment.id
             IN /\ appointments'[id] # NoRow
                /\ appointments'[id].status = Outcome(doctorDashboard.actionDialog)]_vars

\* C30: the note a decide stores was typed while the appointment it is
\* stored on was the selected one.
C30_NoteOfSameAppointment ==
  [][(/\ HandleAppointmentAction
      /\ response' = NULL
      /\ doctorDashboard.doctorNote # "")
       => doctorDashboard.doctorNoteFor = doctorDashboard.selectedAppointment.id]_vars

\* C31: a dashboard that is not mounted has no open channel, no dashboard
\* has more than one open channel, and no event makes the callback of a
\* channel call fetchAppointments while the patient dashboard is unmounted.
C31_ChannelsRemoved ==
  [][/\ ~mounts'.patientMounted => mounts'.patientChannels = <<>>
     /\ ~mounts'.doctorMounted => mounts'.doctorChannels = <<>>
     /\ Len(mounts'.patientChannels) <= 1
     /\ Len(mounts'.doctorChannels) <= 1
     /\ PatientChannelCallback => mounts.patientMounted]_vars

\* C32: when the profile of the patient is loaded and the mounted patient
\* dashboard has no callback left to run, the last query of the dashboard
\* had patient_id equal to the id of the patient and the filter of the
\* channel it opened has that id.
C32_ResolvedProfileId ==
  (/\ mounts.patientMounted
   /\ mounts.profile = PatientUser
   /\ ~ENABLED PatientChannelCallback)
    => /\ mounts.patientQuery = PatientUser
       /\ mounts.patientChannels # <<>>
       /\ mounts.patientChannels[Len(mounts.patientChannels)] = PatientUser

=============================================================================
